---- MODULE Spec2Model ----
(***************************************************************************)
(* Model of src/python/tilings.py (validator, brute enumerator, memoized   *)
(* recurrence counter, aggregator) and of the Luhn functions of            *)
(* src/python/luhn.py.                                                     *)
(*                                                                         *)
(*   Spec       the recurrence counter with its lru_cache, as a call-stack *)
(*              machine: one step per cache lookup, base case, sub-call,   *)
(*              store and return.                                          *)
(*   SpecCount  the counting functions as functions of their arguments.    *)
(*   SpecValid  is_valid on bounded marker sequences.                      *)
(*   SpecLuhn   luhn, luhn2 and luhn_checkdigit on bounded inputs.         *)
(***************************************************************************)
EXTENDS Integers, Sequences, FiniteSets, TLC

VARIABLES cache, stack, ret, calls,
          c_fn, c_twos, c_cols, c_pc, c_result,
          v_tiling, v_twos, v_pc, v_verdict,
          l_num, l_pc, l_luhn, l_luhn2, l_checkdigit

machine_vars == <<cache, stack, ret, calls>>
count_vars   == <<c_fn, c_twos, c_cols, c_pc, c_result>>
valid_vars   == <<v_tiling, v_twos, v_pc, v_verdict>>
luhn_vars    == <<l_num, l_pc, l_luhn, l_luhn2, l_checkdigit>>
vars == <<machine_vars, count_vars, valid_vars, luhn_vars>>

(* ---------------------------------------------------------------- bounds *)

\* Arguments of the memoized machine: twos in -MaxNeg..MaxTwos, cols in
\* -MaxNeg..MaxCols, at most MaxCalls top-level calls in one session.
MaxNeg == 1
MaxTwos == 3
MaxCols == 4
MaxCalls == 2
\* Arguments of the plain functions: twos in -MaxNeg..BigTwos, cols in
\* -MaxNeg..BigCols; the brute enumerator up to MaxBruteCols columns.
BigTwos == 8
BigCols == 14
MaxBruteCols == 6
\* is_valid: sequences of at most MaxLen symbols drawn from 0..MaxSymbol.
MaxLen == 3
MaxSymbol == 4
\* luhn: digit strings of at most MaxDigits digits, numbers below 10^MaxDigits.
MaxDigits == 3

\* An optional argument: None, or Some(x).
None == <<>>
Some(x) == <<x>>

(* ------------------------------------------------------------- validator *)

\* tiling.count(2)
RECURSIVE count(_, _)
count(tiling, x) ==
  IF tiling = <<>> THEN 0
  ELSE (IF Head(tiling) = x THEN 1 ELSE 0) + count(Tail(tiling), x)

\* The mutant of TileOk: a 3 is accepted wherever it stands.
TileOkLooseTail(tiling, i) ==
  LET tile == tiling[i + 1] IN
  CASE tile = 1 -> TRUE
    [] tile = 2 -> i < Len(tiling) - 1 /\ tiling[i + 2] = 3
    [] tile = 3 -> TRUE
    [] OTHER -> FALSE

\* One pass of the loop body for Python index i (the sequence's element i+1):
\* FALSE where the body returns False.
TileOk(tiling, i) ==
  LET tile == tiling[i + 1] IN
  CASE tile = 1 -> TRUE
    [] tile = 2 -> i < Len(tiling) - 1 /\ tiling[i + 2] = 3
    [] tile = 3 -> i > 0 /\ tiling[i] = 2
    [] OTHER -> FALSE

\* for i, tile in enumerate(tiling), from index i on, with its early returns.
RECURSIVE scan(_, _)
scan(tiling, i) ==
  IF i >= Len(tiling) THEN TRUE
  ELSE IF ~TileOk(tiling, i) THEN FALSE
  ELSE scan(tiling, i + 1)

is_valid(tiling, twos) ==
  IF twos # None /\ count(tiling, 2) # twos[1] THEN FALSE
  ELSE scan(tiling, 0)

(* ------------------------------------------------------ brute enumerator *)

\* itertools.product([1, 2, 3], repeat=cols), filtered by is_valid.
brute_all_tilings(cols) ==
  {x \in [1..cols -> {1, 2, 3}] : is_valid(x, None)}

brute_num_tilings(cols) == Cardinality(brute_all_tilings(cols))

brute_partial_num_tilings(twos, cols) ==
  Cardinality({x \in brute_all_tilings(cols) : is_valid(x, Some(twos))})

(* ---------------------------------------------------- recurrence counter *)

\* The binomial coefficient for 0 <= k <= N.
RECURSIVE binom(_, _)
binom(N, k) == IF k = 0 THEN 1 ELSE (binom(N - 1, k - 1) * N) \div k

\* The mutant of comb: the N >= 0 condition is dropped.
comb_no_sign(N, k) ==
  IF k = 0 THEN 1
  ELSE IF k <= N /\ k >= 0 THEN binom(N, k) ELSE 0

\* scipy.special.comb(N, k) with exact=False: 0 unless 0 <= k <= N.
comb(N, k) == IF k <= N /\ N >= 0 /\ k >= 0 THEN binom(N, k) ELSE 0

\* twos <= 1 or cols <= 1
BaseCase(twos, cols) == twos <= 1 \/ cols <= 1

\* int(comb(cols-1, twos)); comb's float is integral here.
BaseValue(twos, cols) == comb(cols - 1, twos)

\* The mutant of SubCall: the third sub-call looks back two columns, not three.
SubCallSameOffset(i, twos, cols) ==
  CASE i = 1 -> <<twos - 1, cols - 2>>
    [] i = 2 -> <<twos, cols - 2>>
    [] i = 3 -> <<twos - 1, cols - 2>>

\* The arguments of the i-th sub-call of the recursive case.
SubCall(i, twos, cols) ==
  CASE i = 1 -> <<twos - 1, cols - 2>>
    [] i = 2 -> <<twos, cols - 2>>
    [] i = 3 -> <<twos - 1, cols - 3>>

\* The function body without its cache.
RECURSIVE partial_num_tilings(_, _)
partial_num_tilings(twos, cols) ==
  IF BaseCase(twos, cols) THEN BaseValue(twos, cols)
  ELSE partial_num_tilings(SubCall(1, twos, cols)[1], SubCall(1, twos, cols)[2])
     + partial_num_tilings(SubCall(2, twos, cols)[1], SubCall(2, twos, cols)[2])
     + partial_num_tilings(SubCall(3, twos, cols)[1], SubCall(3, twos, cols)[2])

\* sum([... for twos in range(cols//2+1)]), from twos on.
RECURSIVE sum_partials(_, _)
sum_partials(twos, cols) ==
  IF twos > cols \div 2 THEN 0
  ELSE partial_num_tilings(twos, cols) + sum_partials(twos + 1, cols)

num_tilings(cols) == sum_partials(0, cols)

(* ------------------------------------------------------------------ luhn *)

\* Python values: a str is the sequence of its characters, the character of a
\* decimal digit being written as that digit; an int is its value.
PyStr(s) == [type |-> "str", val |-> s]
PyInt(n) == [type |-> "int", val |-> n]

\* The decimal numeral of n >= 0, without leading zeros.
RECURSIVE numeral(_)
numeral(n) == IF n < 10 THEN <<n>> ELSE Append(numeral(n \div 10), n % 10)

\* The number a non-empty string of digits denotes, leading zeros allowed.
RECURSIVE parse(_)
parse(s) ==
  IF Len(s) = 1 THEN s[1]
  ELSE parse(SubSeq(s, 1, Len(s) - 1)) * 10 + s[Len(s)]

\* str(x): a str is itself, an int its numeral.
py_str(x) == IF x.type = "str" THEN x.val ELSE numeral(x.val)

\* int(x): an int is itself, a str is parsed; int('') raises ValueError.
py_int(x) ==
  IF x.type = "int" THEN x.val
  ELSE IF x.val = <<>> THEN "ValueError"
  ELSE parse(x.val)

is_even(num) == num % 2 = 0

luhnize(digit, index) ==
  IF is_even(index) THEN digit
  ELSE IF digit < 5 THEN digit * 2
  ELSE digit * 2 - 9

\* The generator's remaining output once val is reached.
RECURSIVE yield_rtl(_)
yield_rtl(val) ==
  IF val = 0 THEN <<>> ELSE <<val % 10>> \o yield_rtl(val \div 10)

digits_rtl(num) == yield_rtl(py_int(num))

\* sum(luhnize(digit, ind) for ind, digit in enumerate(ds)), from index ind on.
RECURSIVE sum_from(_, _)
sum_from(ds, ind) ==
  IF ind >= Len(ds) THEN 0
  ELSE luhnize(ds[ind + 1], ind) + sum_from(ds, ind + 1)

luhn_sum(num) == sum_from(digits_rtl(num), 0)

\* The mutant of luhn_checkdigit: a sum ending in 0 is not special-cased.
luhn_checkdigit_no_zero(num) ==
  LET total == luhn_sum(PyStr(py_str(num) \o <<0>>))
      sum_digit == numeral(total)[Len(numeral(total))]
  IN 10 - sum_digit

luhn_checkdigit(num) ==
  LET total == luhn_sum(PyStr(py_str(num) \o <<0>>))
      sum_digit == numeral(total)[Len(numeral(total))]
  IN IF sum_digit = 0 THEN 0 ELSE 10 - sum_digit

luhn(num) ==
  LET str_num == py_str(num)
  IN Len(str_num) = 0 \/ luhn_sum(PyStr(str_num)) % 10 = 0

luhn2(num) ==
  LET str_num == py_str(num)
  IN Len(str_num) = 0
     \/ luhn_checkdigit(PyStr(SubSeq(str_num, 1, Len(str_num) - 1)))
          = str_num[Len(str_num)]

(* ----------------------------------------------------------- the inputs *)

Twos == (0 - MaxNeg)..MaxTwos
Cols == (0 - MaxNeg)..MaxCols
BigTwosRange == (0 - MaxNeg)..BigTwos
BigColsRange == (0 - MaxNeg)..BigCols

(* ------------------------------------------- the memoized call machine  *)

\* The mutant of CacheKey: the two arguments are merged into one number.
CacheKeyMerged(twos, cols) == <<twos + cols, 0>>

\* lru_cache's key for the positional arguments (twos, cols).
CacheKey(twos, cols) == <<twos, cols>>

\* The mutant of CacheStore: a cache of maxsize 1 evicts the other entries.
CacheStoreEvict(c, key, v) == [k \in {key} |-> v]

\* lru_cache(maxsize=None): the result is added, nothing is evicted.
CacheStore(c, key, v) ==
  [k \in DOMAIN c \cup {key} |-> IF k = key THEN v ELSE c[k]]

Frame(fn, twos, cols) ==
  [fn |-> fn, twos |-> twos, cols |-> cols, pc |-> 0, acc |-> 0]

Top == stack[Len(stack)]
Rest == SubSeq(stack, 1, Len(stack) - 1)

NoRet == [fn |-> "none", twos |-> 0, cols |-> 0, val |-> 0, depth |-> 0,
          hit |-> FALSE]

\* The caller's frame takes the value a sub-call returned: the next term of
\* the sum in partial_num_tilings, the next element in num_tilings.
Deliver(st, v) ==
  IF st = <<>> THEN st
  ELSE LET f == st[Len(st)] IN
       [st EXCEPT ![Len(st)] =
          IF f.fn = "partial_num_tilings"
          THEN [f EXCEPT !.acc = @ + v, !.pc = @ + 1]
          ELSE [f EXCEPT !.acc = @ + v, !.twos = @ + 1]]

\* The top call returns v to its caller.
Return(v, hit) ==
  /\ stack' = Deliver(Rest, v)
  /\ ret' = [fn |-> Top.fn, twos |-> Top.twos, cols |-> Top.cols, val |-> v,
             depth |-> Len(Rest), hit |-> hit]

MachineInit ==
  /\ cache = [k \in {} |-> 0]
  /\ stack = <<>>
  /\ ret = NoRet
  /\ calls = 0

CountIdle ==
  c_fn = "none" /\ c_twos = 0 /\ c_cols = 0 /\ c_pc = "idle" /\ c_result = 0
ValidIdle == v_tiling = <<>> /\ v_twos = None /\ v_pc = "idle" /\ v_verdict = FALSE
LuhnIdle ==
  /\ l_num = [type |-> "str", val |-> <<>>]
  /\ l_pc = "idle"
  /\ l_luhn = FALSE /\ l_luhn2 = FALSE /\ l_checkdigit = 0

Init == MachineInit /\ CountIdle /\ ValidIdle /\ LuhnIdle

\* A caller invokes partial_num_tilings(twos, cols).
CallPartial(twos, cols) ==
  /\ stack = <<>>
  /\ calls < MaxCalls
  /\ stack' = <<Frame("partial_num_tilings", twos, cols)>>
  /\ calls' = calls + 1
  /\ UNCHANGED <<cache, ret, count_vars, valid_vars, luhn_vars>>

\* A caller invokes num_tilings(cols).
CallNum(cols) ==
  /\ stack = <<>>
  /\ calls < MaxCalls
  /\ stack' = <<Frame("num_tilings", 0, cols)>>
  /\ calls' = calls + 1
  /\ UNCHANGED <<cache, ret, count_vars, valid_vars, luhn_vars>>

IsPartial == stack # <<>> /\ Top.fn = "partial_num_tilings"
IsNum == stack # <<>> /\ Top.fn = "num_tilings"
TopKey == CacheKey(Top.twos, Top.cols)

\* The wrapper finds the key: the cached value is returned, the body not run.
Hit ==
  /\ IsPartial /\ Top.pc = 0
  /\ TopKey \in DOMAIN cache
  /\ Return(cache[TopKey], TRUE)
  /\ UNCHANGED <<cache, calls, count_vars, valid_vars, luhn_vars>>

\* A miss in the base case: the closed form is computed, stored and returned.
Base ==
  /\ IsPartial /\ Top.pc = 0
  /\ TopKey \notin DOMAIN cache
  /\ BaseCase(Top.twos, Top.cols)
  /\ cache' = CacheStore(cache, TopKey, BaseValue(Top.twos, Top.cols))
  /\ Return(BaseValue(Top.twos, Top.cols), FALSE)
  /\ UNCHANGED <<calls, count_vars, valid_vars, luhn_vars>>

\* A miss in the recursive case: the next of the three sub-calls is made.
Recurse ==
  /\ IsPartial /\ Top.pc < 3
  /\ Top.pc > 0 \/ TopKey \notin DOMAIN cache
  /\ ~BaseCase(Top.twos, Top.cols)
  /\ LET a == SubCall(Top.pc + 1, Top.twos, Top.cols) IN
       stack' = Append(stack, Frame("partial_num_tilings", a[1], a[2]))
  /\ UNCHANGED <<cache, ret, calls, count_vars, valid_vars, luhn_vars>>

\* The three sub-calls have returned: their sum is stored and returned.
Store ==
  /\ IsPartial /\ Top.pc = 3
  /\ cache' = CacheStore(cache, TopKey, Top.acc)
  /\ Return(Top.acc, FALSE)
  /\ UNCHANGED <<calls, count_vars, valid_vars, luhn_vars>>

\* num_tilings calls partial_num_tilings for the next twos of its range.
NumStep ==
  /\ IsNum /\ Top.twos <= Top.cols \div 2
  /\ stack' = Append(stack, Frame("partial_num_tilings", Top.twos, Top.cols))
  /\ UNCHANGED <<cache, ret, calls, count_vars, valid_vars, luhn_vars>>

\* The range is exhausted: num_tilings returns the sum.
NumReturn ==
  /\ IsNum /\ Top.twos > Top.cols \div 2
  /\ Return(Top.acc, FALSE)
  /\ UNCHANGED <<cache, calls, count_vars, valid_vars, luhn_vars>>

Next ==
  \/ \E twos \in Twos, cols \in Cols : CallPartial(twos, cols)
  \/ \E cols \in Cols : CallNum(cols)
  \/ Hit
  \/ Base
  \/ Recurse
  \/ Store
  \/ NumStep
  \/ NumReturn

Spec == Init /\ [][Next]_vars

(* ------------------------------------- properties of the memoized machine *)

\* C6: partial_num_tilings(K, N) returns 0 whenever K < 0 or N < 0 or K > N,
\* for top-level calls and for the sub-calls the recursion makes with cols-2
\* and cols-3.
C6_NegativeDomain ==
  (ret.fn = "partial_num_tilings"
     /\ (ret.twos < 0 \/ ret.cols < 0 \/ ret.twos > ret.cols))
  => ret.val = 0

\* A sub-call with a negative length, made by the recursion, has returned 0.
C6_Witness ==
  /\ ret.fn = "partial_num_tilings"
  /\ ret.depth > 0
  /\ ret.cols < 0
  /\ ret.val = 0

\* C8: whatever the cache holds when a call is made, partial_num_tilings and
\* num_tilings return what the function body computes without any cache, which
\* is what the first call of a session, made on the empty cache, returns.
C8_Transparency ==
  /\ ret.fn = "partial_num_tilings"
       => ret.val = partial_num_tilings(ret.twos, ret.cols)
  /\ ret.fn = "num_tilings" => ret.val = num_tilings(ret.cols)

\* A later top-level call of the recursive case was answered from the cache.
C8_Witness ==
  /\ calls >= 2
  /\ stack = <<>>
  /\ ret.fn = "partial_num_tilings"
  /\ ret.hit
  /\ ~BaseCase(ret.twos, ret.cols)
  /\ ret.val > 0

\* Every entry is a non-negative integer, the value of the uncached recurrence.
MemoSound ==
  \A k \in DOMAIN cache :
    cache[k] \in Nat /\ cache[k] = partial_num_tilings(k[1], k[2])

\* No entry is removed or overwritten.
MemoKept ==
  \A k \in DOMAIN cache : k \in DOMAIN cache' /\ cache'[k] = cache[k]

\* A new entry is the result of the call that returns in this step; in the
\* recursive case its three sub-calls have returned and are in the table.
MemoStoredAtReturn ==
  \A k \in DOMAIN cache' \ DOMAIN cache :
    /\ IsPartial /\ k = <<Top.twos, Top.cols>>
    /\ stack' = Deliver(Rest, cache'[k])
    /\ ret'.twos = k[1] /\ ret'.cols = k[2] /\ ret'.val = cache'[k]
    /\ ~BaseCase(k[1], k[2]) =>
         /\ Top.pc = 3
         /\ \A i \in 1..3 :
              <<SubCall(i, k[1], k[2])[1], SubCall(i, k[1], k[2])[2]>>
                \in DOMAIN cache

\* C10: the memo table only grows; an entry, once stored, is never removed or
\* overwritten, is a non-negative integer equal to the uncached recurrence, and
\* is stored when its call returns, after the sub-calls have returned.
C10_MemoGrows == []MemoSound /\ [][MemoKept /\ MemoStoredAtReturn]_vars

\* A recursive-case result was computed and stored beside earlier entries.
C10_Witness ==
  /\ ret.fn = "partial_num_tilings"
  /\ ~ret.hit
  /\ ~BaseCase(ret.twos, ret.cols)
  /\ <<ret.twos, ret.cols>> \in DOMAIN cache
  /\ cache[<<ret.twos, ret.cols>>] = ret.val
  /\ ret.val > 0
  /\ calls >= 2

(* ------------------------------------------------ the counting functions *)

\* The calls a caller can make: the recurrence counter and the aggregator on
\* any integers, the brute enumerator on lengths it can enumerate.
CountInputs ==
  /\ c_pc = "call"
  /\ c_result = 0
  /\ \/ /\ c_fn = "partial_num_tilings"
        /\ c_twos \in BigTwosRange /\ c_cols \in BigColsRange
     \/ /\ c_fn = "num_tilings"
        /\ c_twos = 0 /\ c_cols \in BigColsRange
     \/ /\ c_fn = "brute_partial_num_tilings"
        /\ c_twos \in BigTwosRange /\ c_cols \in 0..MaxBruteCols
     \/ /\ c_fn = "brute_num_tilings"
        /\ c_twos = 0 /\ c_cols \in 0..MaxBruteCols

InitCount == MachineInit /\ CountInputs /\ ValidIdle /\ LuhnIdle

Returns(fn, v) ==
  /\ c_pc = "call" /\ c_fn = fn
  /\ c_result' = v
  /\ c_pc' = "done"
  /\ UNCHANGED <<c_fn, c_twos, c_cols, machine_vars, valid_vars, luhn_vars>>

CountPartial == Returns("partial_num_tilings", partial_num_tilings(c_twos, c_cols))

CountNum == Returns("num_tilings", num_tilings(c_cols))

CountBrutePartial ==
  Returns("brute_partial_num_tilings", brute_partial_num_tilings(c_twos, c_cols))

CountBruteNum == Returns("brute_num_tilings", brute_num_tilings(c_cols))

NextCount ==
  \/ CountPartial
  \/ CountNum
  \/ CountBrutePartial
  \/ CountBruteNum

SpecCount == InitCount /\ [][NextCount]_vars

(* ----------------------------------- properties of the counting functions *)

Returned(fn) == c_pc = "done" /\ c_fn = fn

\* C1: for 0 <= N <= 16 and 0 <= K <= N div 2, partial_num_tilings(K, N)
\* equals brute_partial_num_tilings(K, N) (N as far as the enumeration goes).
C1_Equivalence ==
  (Returned("partial_num_tilings")
     /\ c_cols \in 0..MaxBruteCols /\ c_cols <= 16
     /\ c_twos \in 0..(c_cols \div 2))
  => c_result = brute_partial_num_tilings(c_twos, c_cols)

\* C2: for 0 <= N <= 16, num_tilings(N) equals brute_num_tilings(N).
C2_Total ==
  (Returned("num_tilings") /\ c_cols \in 0..MaxBruteCols /\ c_cols <= 16)
  => c_result = brute_num_tilings(c_cols)

\* C3 as stated: num_tilings(1) = 1, (2) = 2, (3) = 3, (4) = 5, (14) = 1220.
C3_Stated ==
  Returned("num_tilings") =>
    /\ c_cols = 1 => c_result = 1
    /\ c_cols = 2 => c_result = 2
    /\ c_cols = 3 => c_result = 3
    /\ c_cols = 4 => c_result = 5
    /\ c_cols = 14 => c_result = 1220

\* C3 as amended: num_tilings(1) = 1, (2) = 2, (3) = 3, (4) = 5 and
\* num_tilings(14) = 610, which is more than 500.
C3_KnownTotals ==
  Returned("num_tilings") =>
    /\ c_cols = 1 => c_result = 1
    /\ c_cols = 2 => c_result = 2
    /\ c_cols = 3 => c_result = 3
    /\ c_cols = 4 => c_result = 5
    /\ c_cols = 14 => c_result = 610 /\ c_result > 500

\* num_tilings(14) has returned.
C3_Witness == Returned("num_tilings") /\ c_cols = 14 /\ c_result > 500

\* C4: num_tilings(0) = 1.
C4_EmptyStrip == (Returned("num_tilings") /\ c_cols = 0) => c_result = 1

\* C5: partial_num_tilings(0, N) = 1 for every N >= 0.
C5_ZeroDominoes ==
  (Returned("partial_num_tilings") /\ c_twos = 0 /\ c_cols >= 0)
  => c_result = 1

(* -------------------------------------------------------- the validator *)

Symbols == 0..MaxSymbol

SeqsUpTo(S, n) == UNION {[1..m -> S] : m \in 0..n}

\* Any sequence of symbols, markers or not, with or without an expected count.
ValidInputs ==
  /\ v_pc = "call"
  /\ v_verdict = FALSE
  /\ v_tiling \in SeqsUpTo(Symbols, MaxLen)
  /\ v_twos \in {None} \cup {Some(k) : k \in 0..MaxLen}

InitValid == MachineInit /\ CountIdle /\ ValidInputs /\ LuhnIdle

Validate ==
  /\ v_pc = "call"
  /\ v_verdict' = is_valid(v_tiling, v_twos)
  /\ v_pc' = "done"
  /\ UNCHANGED <<v_tiling, v_twos, machine_vars, count_vars, luhn_vars>>

NextValid == Validate

SpecValid == InitValid /\ [][NextValid]_vars

\* (a) every symbol is 1, 2 or 3
OnlyMarkers(t) == \A i \in 1..Len(t) : t[i] \in {1, 2, 3}
\* (b) every 2 is followed by a 3
HeadsFollowed(t) ==
  \A i \in 1..Len(t) : t[i] = 2 => (i + 1 <= Len(t) /\ t[i + 1] = 3)
\* (c) every 3 is preceded by a 2
TailsPreceded(t) ==
  \A i \in 1..Len(t) : t[i] = 3 => (i - 1 >= 1 /\ t[i - 1] = 2)
\* (d) a given count is the number of 2s
CountMatches(t, k) ==
  k # None => Cardinality({i \in 1..Len(t) : t[i] = 2}) = k[1]

\* C7: is_valid(t, k) is true exactly when (a) every symbol of t is 1, 2 or 3,
\* (b) every 2 is immediately followed by a 3, (c) every 3 is immediately
\* preceded by a 2 and (d) k, when given, is the number of 2s; it is false
\* otherwise, and the empty sequence with no k is true.
C7_Validator ==
  v_pc = "done" =>
    /\ v_verdict \in BOOLEAN
    /\ v_verdict <=> /\ OnlyMarkers(v_tiling)
                     /\ HeadsFollowed(v_tiling)
                     /\ TailsPreceded(v_tiling)
                     /\ CountMatches(v_tiling, v_twos)
    /\ (v_tiling = <<>> /\ v_twos = None) => v_verdict

\* A counted tiling with a domino and a unit was accepted.
C7_Witness ==
  /\ v_pc = "done"
  /\ v_verdict
  /\ Len(v_tiling) = 3
  /\ v_twos = Some(1)
  /\ \E i \in 1..Len(v_tiling) : v_tiling[i] = 3

(* ----------------------------------------------------------- the luhn run *)

Digits == 0..9

\* A non-empty string of digits (a payload followed by a check digit, leading
\* zeros allowed), the empty string, or a non-negative number.
LuhnInputs ==
  /\ l_pc = "luhn"
  /\ l_luhn = FALSE /\ l_luhn2 = FALSE /\ l_checkdigit = 0
  /\ \/ \E s \in SeqsUpTo(Digits, MaxDigits) : l_num = PyStr(s)
     \/ \E n \in 0..(10 ^ MaxDigits - 1) : l_num = PyInt(n)

InitLuhn == MachineInit /\ CountIdle /\ ValidIdle /\ LuhnInputs

RunLuhn ==
  /\ l_pc = "luhn"
  /\ l_luhn' = luhn(l_num)
  /\ l_pc' = "luhn2"
  /\ UNCHANGED <<l_num, l_luhn2, l_checkdigit, machine_vars, count_vars, valid_vars>>

RunLuhn2 ==
  /\ l_pc = "luhn2"
  /\ l_luhn2' = luhn2(l_num)
  /\ l_pc' = "checkdigit"
  /\ UNCHANGED <<l_num, l_luhn, l_checkdigit, machine_vars, count_vars, valid_vars>>

\* luhn_checkdigit(str(num)[:-1]), as the unit test calls it.
RunCheckdigit ==
  /\ l_pc = "checkdigit"
  /\ Len(py_str(l_num)) > 0
  /\ l_checkdigit' =
       luhn_checkdigit(PyStr(SubSeq(py_str(l_num), 1, Len(py_str(l_num)) - 1)))
  /\ l_pc' = "done"
  /\ UNCHANGED <<l_num, l_luhn, l_luhn2, machine_vars, count_vars, valid_vars>>

\* The empty string has no last digit to compare a check digit with.
NoCheckdigit ==
  /\ l_pc = "checkdigit"
  /\ Len(py_str(l_num)) = 0
  /\ l_pc' = "done"
  /\ UNCHANGED <<l_num, l_luhn, l_luhn2, l_checkdigit, machine_vars, count_vars,
                 valid_vars>>

NextLuhn ==
  \/ RunLuhn
  \/ RunLuhn2
  \/ RunCheckdigit
  \/ NoCheckdigit

SpecLuhn == InitLuhn /\ [][NextLuhn]_vars

\* C9: for every digit string p and digit d, luhn_checkdigit(p) = d if and only
\* if luhn(p followed by d) is true; and luhn2 and luhn give the same verdict on
\* every non-negative number.
C9_CheckdigitAgrees ==
  (l_pc = "done" /\ Len(py_str(l_num)) > 0) =>
    /\ (l_checkdigit = py_str(l_num)[Len(py_str(l_num))]) <=> l_luhn
    /\ l_num.type = "int" => (l_luhn2 <=> l_luhn)

\* A string with a leading zero whose last digit is its non-zero check digit.
C9_Witness ==
  /\ l_pc = "done"
  /\ l_num.type = "str"
  /\ Len(l_num.val) = 3
  /\ l_num.val[1] = 0
  /\ l_luhn
  /\ l_checkdigit = l_num.val[3]
  /\ l_checkdigit # 0

====
